---- MODULE Spec2Model ----
(***************************************************************************)
(* Recipe Ideas (src/src/App.jsx): the ingredient search pipeline, the     *)
(* autosuggest list, the chosen-ingredient chips, the favourites and the   *)
(* cooking-time estimate, as a state machine over the component's state.   *)
(*                                                                         *)
(* Text is a sequence of one-character strings, so that trim, split,       *)
(* toLowerCase and includes are computed the way the code computes them.   *)
(* A field that is absent (null or undefined) and a field that holds the   *)
(* empty string are both falsy and take the same branch at every place     *)
(* the code reads a text field (ing && ..., x || ""), so both are <<>>.    *)
(***************************************************************************)
EXTENDS Integers, Sequences, FiniteSets, TLC

VARIABLES
    allIngredients,       \* useState([]) line 94: the ingredient catalog
    catalogPending,       \* the list-ingredients request of lines 107-117 is in flight
    query,                \* useState("") line 95
    debouncedQuery,       \* useDebouncedValue(query, 150) line 96
    selectedIngredients,  \* useState([]) line 97
    cuisines,             \* useState([]) line 81
    cookTime,             \* useState(45) line 89
    mealTimes,            \* useState([]) line 90
    diet,                 \* useState([]) line 91
    loading,              \* useState(false) line 100
    error,                \* useState("") line 101
    meals,                \* useState([]) line 102
    selectedMeal,         \* useState(null) line 103
    favourites,           \* useState([]) line 104
    runs,                 \* the run() calls of lines 130-204 that have not returned yet
    ended,                \* the run() call that returned in the last step, if one did
    probe,                \* a recipe record shown on a card (lines 418-449)
    minutes,              \* const minutes = estimateCookTime(meal), line 419
    populated,            \* history: the slots of probe written with a name
    qualifying            \* history: the instruction segments of probe written
                          \* with more than 6 characters between their blanks

vars == <<allIngredients, catalogPending, query, debouncedQuery, selectedIngredients,
          cuisines, cookTime, mealTimes, diet, loading, error, meals, selectedMeal,
          favourites, runs, ended, probe, minutes, populated, qualifying>>

appVars == <<allIngredients, catalogPending, query, debouncedQuery, selectedIngredients,
             cuisines, cookTime, mealTimes, diet, loading, error, meals, selectedMeal,
             favourites, runs, ended>>

\* ----------------------------------------------------------------- text

Min(a, b) == IF a <= b THEN a ELSE b

UpperChars == <<"A","B","C","D","E","F","G","H","I","J","K","L","M",
                "N","O","P","Q","R","S","T","U","V","W","X","Y","Z">>
LowerChars == <<"a","b","c","d","e","f","g","h","i","j","k","l","m",
                "n","o","p","q","r","s","t","u","v","w","x","y","z">>

\* the lower-case letter of each upper-case letter
lowerOf ==
    [c \in {UpperChars[i] : i \in 1..Len(UpperChars)} |->
        LowerChars[CHOOSE i \in 1..Len(UpperChars) : UpperChars[i] = c]]

\* String.prototype.toLowerCase on one character
toLowerChar(c) == IF c \in DOMAIN lowerOf THEN lowerOf[c] ELSE c

\* String.prototype.toLowerCase
toLowerCase(s) == [i \in 1..Len(s) |-> toLowerChar(s[i])]

WhiteSpace == {" ", "\n", "\r", "\t"}

\* String.prototype.trim: what lies between the first and the last character
\* that is no white space
trim(s) ==
    LET solid == {i \in 1..Len(s) : s[i] \notin WhiteSpace}
    IN  IF solid = {} THEN <<>>
        ELSE SubSeq(s, CHOOSE i \in solid : \A j \in solid : i <= j,
                       CHOOSE i \in solid : \A j \in solid : j <= i)

\* String.prototype.includes: t occurs in s as a contiguous run of characters
includes(s, t) ==
    \E off \in 0..(Len(s) - Len(t)) : \A k \in 1..Len(t) : s[off + k] = t[k]

\* /(a|b|...)/i.test(s): some alternative occurs in s, letter case ignored
testAny(words, s) ==
    LET text == toLowerCase(s)
    IN  \E w \in words : includes(text, toLowerCase(w))

\* String.prototype.split with a character-class separator: the pieces between
\* consecutive separators, empty pieces kept ("" splits into one empty piece)
RECURSIVE splitFrom(_, _, _)
splitFrom(s, seps, start) ==
    LET cuts == {i \in start..Len(s) : s[i] \in seps}
    IN  IF cuts = {} THEN <<SubSeq(s, start, Len(s))>>
        ELSE LET next == CHOOSE i \in cuts : \A j \in cuts : i <= j
             IN  <<SubSeq(s, start, next - 1)>> \o splitFrom(s, seps, next + 1)

split(s, seps) == splitFrom(s, seps, 1)

\* Array.prototype.join(" ")
RECURSIVE joinSpace(_)
joinSpace(ss) ==
    IF ss = <<>> THEN <<>>
    ELSE IF Len(ss) = 1 THEN ss[1]
    ELSE ss[1] \o <<" ">> \o joinSpace(Tail(ss))

\* the elements of a sequence, as a set
Range(s) == {s[i] : i \in 1..Len(s)}

\* Array.prototype.filter with the predicate already applied: keep[i] says
\* whether element i stays
RECURSIVE keepWhere(_, _)
keepWhere(s, keep) ==
    IF s = <<>> THEN <<>>
    ELSE (IF keep[1] THEN <<Head(s)>> ELSE <<>>) \o keepWhere(Tail(s), Tail(keep))

\* Array.prototype.slice(0, n)
slice0(s, n) == SubSeq(s, 1, Min(n, Len(s)))

\* ------------------------------------------------------ recipe records

\* null (selectedMeal, a lookup that returned no record)
Null == [null |-> TRUE]

MaxSlots == 20       \* for (let i = 1; i <= 20; i++), line 45
BaseMinutes == 10    \* const base = 10, line 35
PerItem == 2         \* * 2, lines 36 and 37
MinStepLen == 6      \* s.trim().length > 6, line 37
CapMinutes == 120    \* Math.min(120, ...), line 38

\* meal[`strIngredient${i}`]: slot i of the record, absent beyond the slots it has
slotOf(meal, i) == IF i <= Len(meal.slots) THEN meal.slots[i] ELSE <<>>

\* extractIngredients, lines 42-53: the trimmed names of the populated slots
\* 1..20 in slot order (the measure travels with the name for display only).
RECURSIVE extractFrom(_, _)
extractFrom(meal, i) ==
    IF i > MaxSlots THEN <<>>
    ELSE (IF slotOf(meal, i) # <<>> /\ trim(slotOf(meal, i)) # <<>>
          THEN <<trim(slotOf(meal, i))>> ELSE <<>>) \o extractFrom(meal, i + 1)

extractIngredients(meal) == IF meal = Null THEN <<>> ELSE extractFrom(meal, 1)

StepSeparators == {"\n", ".", "\r"}   \* split(/\n|\.|\r/), line 37

\* (meal?.strInstructions || "").split(...).filter(s => s.trim().length > 6).length
stepCount(meal) ==
    LET text == IF meal = Null THEN <<>> ELSE meal.strInstructions
        parts == split(text, StepSeparators)
    IN  Cardinality({i \in 1..Len(parts) : Len(trim(parts[i])) > MinStepLen})

\* the estimate without the cap of line 38 (a slip the cap claim must notice)
estimateCookTimeUncapped(meal) ==
    BaseMinutes + Len(extractIngredients(meal)) * PerItem + stepCount(meal) * PerItem

\* estimateCookTime, lines 32-40.  base + byIngs + bySteps is an integer, which
\* Math.round returns unchanged.
estimateCookTime(meal) ==
    Min(CapMinutes,
        BaseMinutes + Len(extractIngredients(meal)) * PerItem + stepCount(meal) * PerItem)

\* ------------------------------------------------------- filter options

Indian == <<"I","n","d","i","a","n">>
Chinese == <<"C","h","i","n","e","s","e">>
American == <<"A","m","e","r","i","c","a","n">>
Russian == <<"R","u","s","s","i","a","n">>

\* cuisineOptions, lines 82-88
cuisineOptions ==
    << [label |-> "North Indian", value |-> Indian],
       [label |-> "South Indian", value |-> Indian],
       [label |-> "Chinese", value |-> Chinese],
       [label |-> "Americans", value |-> American],
       [label |-> "Russians", value |-> Russian] >>

Breakfast == <<"B","r","e","a","k","f","a","s","t">>
Lunch == <<"L","u","n","c","h">>
Snack == <<"S","n","a","c","k">>
Dinner == <<"D","i","n","n","e","r">>

mealTimeOptions == <<Breakfast, Lunch, Snack, Dinner>>       \* line 322
dietOptions == <<"Veg", "Non-Veg", "Sea-food", "Drinks">>    \* line 346

InitialCookTime == 45   \* useState(45), line 89
SliderMin == 10         \* min={10}, line 308
SliderMax == 90         \* max={90}, line 309
SliderStep == 5         \* step={5}, line 311
SentinelMinutes == 70   \* cookTime >= 70, line 167
MaxResults == 20        \* slice(0, 20), line 148
MaxSuggestions == 10    \* slice(0, 10), line 125

\* the values the range input of lines 306-314 can take
sliderValues == {v \in SliderMin..SliderMax : (v - SliderMin) % SliderStep = 0}

NoError == ""                                               \* setError(""), line 131
ErrorMessage == "Could not load recipes. Please try again." \* line 199

\* ------------------------------------------------ the filter predicate

chicken == <<"c","h","i","c","k","e","n">>
beef == <<"b","e","e","f">>
pork == <<"p","o","r","k">>
mutton == <<"m","u","t","t","o","n">>
lamb == <<"l","a","m","b">>
bacon == <<"b","a","c","o","n">>
fish == <<"f","i","s","h">>
shrimp == <<"s","h","r","i","m","p">>
prawn == <<"p","r","a","w","n">>
crab == <<"c","r","a","b">>
clam == <<"c","l","a","m">>
oyster == <<"o","y","s","t","e","r">>
tuna == <<"t","u","n","a">>
salmon == <<"s","a","l","m","o","n">>
seafood == <<"s","e","a","f","o","o","d">>
drink == <<"d","r","i","n","k">>
beverage == <<"b","e","v","e","r","a","g","e">>
shake == <<"s","h","a","k","e">>
smoothie == <<"s","m","o","o","t","h","i","e">>
cocktail == <<"c","o","c","k","t","a","i","l">>
juice == <<"j","u","i","c","e">>

seaWords == {fish, shrimp, prawn, crab, clam, oyster, tuna, salmon}   \* line 173
meatWords == {chicken, beef, pork, mutton, lamb, bacon} \cup seaWords \* line 170
drinkWords == {drink, beverage, shake, smoothie, cocktail, juice}     \* line 174

\* lines 161-162
areaOf(meal) == toLowerCase(meal.strArea)
categoryOf(meal) == toLowerCase(meal.strCategory)

\* line 169, joined as in lines 171 and 173
ingredientText(meal) ==
    LET ings == extractIngredients(meal)
    IN  joinSpace([i \in 1..Len(ings) |-> toLowerCase(ings[i])])

\* lines 163-165
cuisineOk(meal, cs) ==
    \/ Len(cs) = 0
    \/ \E i \in 1..Len(cs) :
          \/ includes(areaOf(meal), toLowerCase(cs[i].value))
          \/ includes(categoryOf(meal), toLowerCase(cs[i].value))

\* line 167 without the "more than an hour" clause
timeOkNoSentinel(meal, ct) == estimateCookTime(meal) <= ct

\* line 167
timeOk(meal, ct) == estimateCookTime(meal) <= ct \/ ct >= SentinelMinutes

isVeg(meal) == ~testAny(meatWords, ingredientText(meal))                 \* lines 170-172
isSea(meal) ==                                                           \* line 173
    testAny(seaWords, ingredientText(meal)) \/ includes(categoryOf(meal), seafood)
isDrink(meal) ==                                                         \* lines 174-176
    testAny(drinkWords, categoryOf(meal) \o <<" ">> \o meal.strMeal)

\* lines 178-185
dietOk(meal, dt) ==
    \/ Len(dt) = 0
    \/ \E i \in 1..Len(dt) :
          \/ dt[i] = "Veg" /\ isVeg(meal)
          \/ dt[i] = "Non-Veg" /\ ~isVeg(meal) /\ ~isDrink(meal)
          \/ dt[i] = "Sea-food" /\ isSea(meal)
          \/ dt[i] = "Drinks" /\ isDrink(meal)

\* lines 188-190
mealTimeOk(meal, mts) ==
    \/ Len(mts) = 0
    \/ \E i \in 1..Len(mts) :
          testAny({mts[i]}, meal.strMeal) \/ testAny({mts[i]}, meal.strTags)

\* the predicate of clean.filter(...), lines 158-193, under the filter
\* values the run() call closed over
retained(meal, f) ==
    /\ cuisineOk(meal, f.cuisines)
    /\ timeOk(meal, f.cookTime)
    /\ dietOk(meal, f.diet)
    /\ mealTimeOk(meal, f.mealTimes)

\* ----------------------------------------------- intersection and cap

\* new Set(array): the distinct elements in order of first occurrence
RECURSIVE newSet(_)
newSet(s) ==
    IF s = <<>> THEN <<>>
    ELSE LET r == newSet(SubSeq(s, 1, Len(s) - 1))
         IN  IF s[Len(s)] \in Range(r) THEN r ELSE Append(r, s[Len(s)])

\* lists.map(d => new Set((d?.meals || []).map(m => m.idMeal))), line 141;
\* a response is held as the sequence of its idMeal values (none when meals
\* is null), the only part of a summary record the code reads
mealSetsOf(lists) == [i \in 1..Len(lists) |-> newSet(lists[i].ids)]

\* the loop of lines 143-147 with the filter forgotten: the first set alone
intersectFirstOnly(sets) == IF sets = <<>> THEN <<>> ELSE sets[1]

\* the loop of lines 143-147: the first set, narrowed by every later one
RECURSIVE intersectFrom(_, _)
intersectFrom(acc, rest) ==
    IF rest = <<>> THEN acc
    ELSE intersectFrom(keepWhere(acc, [k \in 1..Len(acc) |-> acc[k] \in Range(rest[1])]),
                       Tail(rest))

intersect(sets) == IF sets = <<>> THEN <<>> ELSE intersectFrom(sets[1], Tail(sets))

\* const ids = [...(intersection || [])].slice(0, 20), line 148
lookupIds(lists) == slice0(intersect(mealSetsOf(lists)), MaxResults)

\* line 156 stopping at the first lookup that came back without a record
cleanUntilMissing(details) ==
    keepWhere(details,
        [k \in 1..Len(details) |-> \A j \in 1..k : details[j] # Null])

\* const clean = details.filter(Boolean), line 156
clean(details) == keepWhere(details, [k \in 1..Len(details) |-> details[k] # Null])

\* const filtered = clean.filter(...), lines 158-193
filtered(details, f) ==
    LET c == clean(details)
    IN  keepWhere(c, [k \in 1..Len(c) |-> retained(c[k], f)])

\* filtered[0] || null, line 196
firstOrNull(list) == IF list = <<>> THEN Null ELSE list[1]

\* ------------------------------------------------------------- catalog

\* the place of each lower-case letter in the alphabet
letterRank == [c \in {LowerChars[i] : i \in 1..Len(LowerChars)} |->
                  CHOOSE i \in 1..Len(LowerChars) : LowerChars[i] = c]

\* the collation rank of a character under localeCompare: letters in
\* alphabetical order whatever their case, every other character before them
charRank(c) ==
    IF toLowerChar(c) \in DOMAIN letterRank THEN letterRank[toLowerChar(c)] ELSE 0

RECURSIVE rankCompare(_, _)
rankCompare(a, b) ==
    IF a = <<>> /\ b = <<>> THEN 0
    ELSE IF a = <<>> THEN -1
    ELSE IF b = <<>> THEN 1
    ELSE IF charRank(Head(a)) < charRank(Head(b)) THEN -1
    ELSE IF charRank(Head(a)) > charRank(Head(b)) THEN 1
    ELSE rankCompare(Tail(a), Tail(b))

RECURSIVE caseCompare(_, _)
caseCompare(a, b) ==
    IF a = <<>> \/ b = <<>> THEN 0
    ELSE IF Head(a) = Head(b) THEN caseCompare(Tail(a), Tail(b))
    ELSE IF Head(a) = toLowerChar(Head(a)) THEN -1 ELSE 1

\* a.localeCompare(b), line 113: by letters first, lower case before upper
\* case where the letters agree
localeCompare(a, b) ==
    IF rankCompare(a, b) # 0 THEN rankCompare(a, b) ELSE caseCompare(a, b)

RECURSIVE insertSorted(_, _)
insertSorted(x, s) ==
    IF s = <<>> THEN <<x>>
    ELSE IF localeCompare(x, Head(s)) < 0 THEN <<x>> \o s
    ELSE <<Head(s)>> \o insertSorted(x, Tail(s))

\* Array.prototype.sort((a, b) => a.localeCompare(b)), stable
RECURSIVE sortNames(_)
sortNames(s) ==
    IF s = <<>> THEN <<>>
    ELSE insertSorted(s[Len(s)], sortNames(SubSeq(s, 1, Len(s) - 1)))

\* lines 110-113: the names of the response d (held as the sequence of its
\* strIngredient values), the falsy ones dropped, sorted
catalogNames(d) ==
    sortNames(keepWhere(d, [k \in 1..Len(d) |-> d[k] # <<>>]))

\* lines 120-126 without the !selectedIngredients.includes(n) test
suggestionsKeepChosen(dq, catalog, chosen) ==
    IF dq = <<>> THEN <<>>
    ELSE slice0(keepWhere(catalog,
                    [k \in 1..Len(catalog) |->
                        includes(toLowerCase(catalog[k]), toLowerCase(dq))]),
                MaxSuggestions)

\* the autosuggest list, lines 120-126
suggestionsOf(dq, catalog, chosen) ==
    IF dq = <<>> THEN <<>>
    ELSE slice0(keepWhere(catalog,
                    [k \in 1..Len(catalog) |->
                        /\ includes(toLowerCase(catalog[k]), toLowerCase(dq))
                        /\ catalog[k] \notin Range(chosen)]),
                MaxSuggestions)

suggestions == suggestionsOf(debouncedQuery, allIngredients, selectedIngredients)

\* ---------------------------------------------------------------- runs

\* the filter values a run() call closes over (the deps of line 205)
filtersNow ==
    [cuisines |-> cuisines, cookTime |-> cookTime, mealTimes |-> mealTimes, diet |-> diet]

Pending == [done |-> FALSE, ids |-> <<>>]
Arrived(ids) == [done |-> TRUE, ids |-> ids]

noFilters ==
    [cuisines |-> <<>>, cookTime |-> InitialCookTime, mealTimes |-> <<>>, diet |-> <<>>]

NoEnd ==
    [outcome |-> "none", stage |-> "none", ings |-> <<>>, f |-> noFilters,
     lists |-> <<>>, ids |-> <<>>, details |-> <<>>, alone |-> TRUE]

\* what a run() call leaves behind when it returns
endOf(r, outcome) ==
    [outcome |-> outcome, stage |-> r.stage, ings |-> r.ings, f |-> r.f,
     lists |-> r.lists, ids |-> r.ids, details |-> r.details, alone |-> r.alone]

without(s, k) == [j \in 1..(Len(s) - 1) |-> IF j < k THEN s[j] ELSE s[j + 1]]

\* run() with the length test of line 134 after setLoading(true)
runLoadingFirst(ings, f) ==
    /\ error' = NoError
    /\ meals' = <<>>
    /\ selectedMeal' = Null
    /\ loading' = TRUE
    /\ IF Len(ings) = 0
       THEN /\ runs' = runs
            /\ ended' = endOf([stage |-> "start", ings |-> ings, f |-> f, lists |-> <<>>,
                               ids |-> <<>>, details |-> <<>>, alone |-> runs = <<>>],
                              "skipped")
       ELSE /\ runs' = Append([k \in 1..Len(runs) |-> [runs[k] EXCEPT !.alone = FALSE]],
                              [stage |-> "filter", ings |-> ings, f |-> f,
                               lists |-> [i \in 1..Len(ings) |-> Pending],
                               ids |-> <<>>, details |-> <<>>, alone |-> runs = <<>>])
            /\ ended' = NoEnd

\* the effect of lines 129-205 up to its first await: run() resets error,
\* meals and selectedMeal, returns if no ingredient is chosen, and otherwise
\* raises loading and issues one filter-by-ingredient request per ingredient.
\* alone records whether another run() call was in flight at any time during
\* this one.
run(ings, f) ==
    /\ error' = NoError
    /\ meals' = <<>>
    /\ selectedMeal' = Null
    /\ IF Len(ings) = 0
       THEN /\ loading' = loading
            /\ runs' = runs
            /\ ended' = endOf([stage |-> "start", ings |-> ings, f |-> f, lists |-> <<>>,
                               ids |-> <<>>, details |-> <<>>, alone |-> runs = <<>>],
                              "skipped")
       ELSE /\ loading' = TRUE
            /\ runs' = Append([k \in 1..Len(runs) |-> [runs[k] EXCEPT !.alone = FALSE]],
                              [stage |-> "filter", ings |-> ings, f |-> f,
                               lists |-> [i \in 1..Len(ings) |-> Pending],
                               ids |-> <<>>, details |-> <<>>, alone |-> runs = <<>>])
            /\ ended' = NoEnd

\* lines 195-196 with the selection left as it was
commitKeepSelection(k, r) ==
    /\ meals' = filtered(r.details, r.f)
    /\ selectedMeal' = selectedMeal
    /\ loading' = FALSE
    /\ error' = error
    /\ runs' = without(runs, k)
    /\ ended' = endOf(r, "done")

\* lines 195-196 guarded by a test that the run is the latest one
commitIfLatest(k, r) ==
    /\ IF r.ings = selectedIngredients /\ r.f = filtersNow
       THEN /\ meals' = filtered(r.details, r.f)
            /\ selectedMeal' = firstOrNull(meals')
       ELSE UNCHANGED <<meals, selectedMeal>>
    /\ loading' = FALSE
    /\ error' = error
    /\ runs' = without(runs, k)
    /\ ended' = endOf(r, "done")

\* lines 156-196 and 200-201: run k, whose locals are r, has all its details;
\* it filters them, writes meals and selectedMeal, lowers loading and returns
commit(k, r) ==
    /\ meals' = filtered(r.details, r.f)
    /\ selectedMeal' = firstOrNull(meals')
    /\ loading' = FALSE
    /\ error' = error
    /\ runs' = without(runs, k)
    /\ ended' = endOf(r, "done")

\* lines 197-201 with the setError forgotten
catchErrorSilent(k, r) ==
    /\ error' = error
    /\ loading' = FALSE
    /\ UNCHANGED <<meals, selectedMeal>>
    /\ runs' = without(runs, k)
    /\ ended' = endOf(r, "failed")

\* lines 197-199 without the finally of lines 200-202
catchErrorKeepLoading(k, r) ==
    /\ error' = ErrorMessage
    /\ loading' = loading
    /\ UNCHANGED <<meals, selectedMeal>>
    /\ runs' = without(runs, k)
    /\ ended' = endOf(r, "failed")

\* lines 197-201: an await of run k threw; it sets the error, lowers loading
\* and returns
catchError(k, r) ==
    /\ error' = ErrorMessage
    /\ loading' = FALSE
    /\ UNCHANGED <<meals, selectedMeal>>
    /\ runs' = without(runs, k)
    /\ ended' = endOf(r, "failed")

searchVars == <<allIngredients, catalogPending, query, debouncedQuery, selectedIngredients>>
filterVars == <<cuisines, cookTime, mealTimes, diet>>
resultVars == <<loading, error, meals, selectedMeal, runs, ended>>
probeVars == <<probe, minutes, populated, qualifying>>

\* lines 138-148 without the Promise.all: the run goes on with the lists it
\* has as soon as one filter-by-ingredient request resolves
FilterResolvedNoBarrier(k, i, d) ==
    /\ k \in 1..Len(runs)
    /\ runs[k].stage = "filter"
    /\ i \in 1..Len(runs[k].lists)
    /\ ~runs[k].lists[i].done
    /\ LET lists == [runs[k].lists EXCEPT ![i] = Arrived(d)]
           r == [runs[k] EXCEPT !.lists = lists,
                                !.stage = "lookup",
                                !.ids = lookupIds(<<lists[i]>>)]
       IN  IF r.ids = <<>>
           THEN commit(k, r)
           ELSE /\ runs' = [runs EXCEPT ![k] = r]
                /\ ended' = NoEnd
                /\ UNCHANGED <<loading, error, meals, selectedMeal>>
    /\ UNCHANGED <<searchVars, filterVars, favourites, probeVars>>

\* the filter-by-ingredient request i of run k resolves with the ids d
\* (lines 138-148).  When it is the last one, Promise.all resolves: the ids
\* are intersected and capped and one lookup-by-id request per id is issued;
\* with no id left Promise.all([]) resolves at once and the run commits.
FilterResolved(k, i, d) ==
    /\ k \in 1..Len(runs)
    /\ runs[k].stage = "filter"
    /\ i \in 1..Len(runs[k].lists)
    /\ ~runs[k].lists[i].done
    /\ LET lists == [runs[k].lists EXCEPT ![i] = Arrived(d)]
           all == \A j \in 1..Len(lists) : lists[j].done
           r == [runs[k] EXCEPT !.lists = lists,
                                !.stage = IF all THEN "lookup" ELSE "filter",
                                !.ids = IF all THEN lookupIds(lists) ELSE <<>>]
       IN  IF all /\ r.ids = <<>>
           THEN commit(k, r)
           ELSE /\ runs' = [runs EXCEPT ![k] = r]
                /\ ended' = NoEnd
                /\ UNCHANGED <<loading, error, meals, selectedMeal>>
    /\ UNCHANGED <<searchVars, filterVars, favourites, probeVars>>

\* the filter-by-ingredient request i of run k rejects (fetch or r.json()
\* throws): Promise.all rejects and the run goes to its catch
FilterRejected(k, i) ==
    /\ k \in 1..Len(runs)
    /\ runs[k].stage = "filter"
    /\ i \in 1..Len(runs[k].lists)
    /\ ~runs[k].lists[i].done
    /\ catchError(k, runs[k])
    /\ UNCHANGED <<searchVars, filterVars, favourites, probeVars>>

\* the next lookup-by-id request of run k resolves with d?.meals?.[0] = rec,
\* a record or nothing (lines 150-155).  Promise.all keeps the results by
\* index whatever the order of arrival and the run reads them only when all
\* are there, so the responses are taken in index order.
LookupResolved(k, rec) ==
    /\ k \in 1..Len(runs)
    /\ runs[k].stage = "lookup"
    /\ Len(runs[k].details) < Len(runs[k].ids)
    /\ LET r == [runs[k] EXCEPT !.details = Append(@, rec)]
       IN  IF Len(r.details) = Len(r.ids)
           THEN commit(k, r)
           ELSE /\ runs' = [runs EXCEPT ![k] = r]
                /\ ended' = NoEnd
                /\ UNCHANGED <<loading, error, meals, selectedMeal>>
    /\ UNCHANGED <<searchVars, filterVars, favourites, probeVars>>

\* a lookup-by-id request of run k rejects: the async callback of line 151
\* throws, Promise.all rejects and the run goes to its catch
LookupRejected(k) ==
    /\ k \in 1..Len(runs)
    /\ runs[k].stage = "lookup"
    /\ Len(runs[k].details) < Len(runs[k].ids)
    /\ catchError(k, runs[k])
    /\ UNCHANGED <<searchVars, filterVars, favourites, probeVars>>

\* ------------------------------------------------------------ handlers

\* onChange of the search input, line 383
typeQuery(q) ==
    /\ q # query
    /\ query' = q
    /\ ended' = NoEnd
    /\ UNCHANGED <<allIngredients, catalogPending, debouncedQuery, selectedIngredients,
                   filterVars, loading, error, meals, selectedMeal, runs, favourites,
                   probeVars>>

\* the timer of useDebouncedValue fires, lines 22-29
debounce ==
    /\ debouncedQuery # query
    /\ debouncedQuery' = query
    /\ ended' = NoEnd
    /\ UNCHANGED <<allIngredients, catalogPending, query, selectedIngredients,
                   filterVars, loading, error, meals, selectedMeal, runs, favourites,
                   probeVars>>

\* addIngredient without the includes test of line 209
addIngredientAlways(name) ==
    IF name = <<>>
    THEN UNCHANGED vars
    ELSE /\ selectedIngredients' = Append(selectedIngredients, name)
         /\ query' = <<>>
         /\ run(Append(selectedIngredients, name), filtersNow)
         /\ UNCHANGED <<allIngredients, catalogPending, debouncedQuery, filterVars,
                        favourites, probeVars>>

\* addIngredient, lines 207-212, and the effect its state change triggers
addIngredient(name) ==
    IF name = <<>> \/ name \in Range(selectedIngredients)
    THEN UNCHANGED vars
    ELSE /\ selectedIngredients' = Append(selectedIngredients, name)
         /\ query' = <<>>
         /\ run(Append(selectedIngredients, name), filtersNow)
         /\ UNCHANGED <<allIngredients, catalogPending, debouncedQuery, filterVars,
                        favourites, probeVars>>

\* onKeyDown of the search input with the Enter key, lines 384-386
pressEnter ==
    /\ trim(query) # <<>>
    /\ addIngredient(trim(query))

\* onClick of suggestion s, line 393
clickSuggestion(s) ==
    /\ s \in Range(suggestions)
    /\ addIngredient(s)

\* removeIngredient, line 213 (the chip's button, line 373), and the effect
removeIngredient(name) ==
    /\ name \in Range(selectedIngredients)
    /\ LET s == keepWhere(selectedIngredients,
                    [k \in 1..Len(selectedIngredients) |-> selectedIngredients[k] # name])
       IN  /\ selectedIngredients' = s
           /\ run(s, filtersNow)
    /\ UNCHANGED <<allIngredients, catalogPending, query, debouncedQuery, filterVars,
                   favourites, probeVars>>

\* the cuisine checkbox of option opt, lines 287-296, and the effect
toggleCuisine(opt) ==
    /\ LET checked == \E k \in 1..Len(cuisines) : cuisines[k].label = opt.label
           cs == IF ~checked
                 THEN Append(cuisines, opt)
                 ELSE keepWhere(cuisines,
                          [k \in 1..Len(cuisines) |-> cuisines[k].label # opt.label])
       IN  /\ cuisines' = cs
           /\ run(selectedIngredients, [filtersNow EXCEPT !.cuisines = cs])
    /\ UNCHANGED <<searchVars, cookTime, mealTimes, diet, favourites, probeVars>>

\* the cooking-time slider moves to v, lines 306-314, and the effect
moveSlider(v) ==
    /\ v \in sliderValues
    /\ v # cookTime
    /\ cookTime' = v
    /\ run(selectedIngredients, [filtersNow EXCEPT !.cookTime = v])
    /\ UNCHANGED <<searchVars, cuisines, mealTimes, diet, favourites, probeVars>>

\* the meal-time button m, lines 322-338, and the effect
toggleMealTime(m) ==
    /\ LET active == m \in Range(mealTimes)
           ms == IF active
                 THEN keepWhere(mealTimes, [k \in 1..Len(mealTimes) |-> mealTimes[k] # m])
                 ELSE Append(mealTimes, m)
       IN  /\ mealTimes' = ms
           /\ run(selectedIngredients, [filtersNow EXCEPT !.mealTimes = ms])
    /\ UNCHANGED <<searchVars, cuisines, cookTime, diet, favourites, probeVars>>

\* the diet button m, lines 346-360, and the effect
toggleDiet(m) ==
    /\ LET active == m \in Range(diet)
           ds == IF active
                 THEN keepWhere(diet, [k \in 1..Len(diet) |-> diet[k] # m])
                 ELSE Append(diet, m)
       IN  /\ diet' = ds
           /\ run(selectedIngredients, [filtersNow EXCEPT !.diet = ds])
    /\ UNCHANGED <<searchVars, cuisines, cookTime, mealTimes, favourites, probeVars>>

\* onClick of result card k, line 423
selectCard(k) ==
    /\ k \in 1..Len(meals)
    /\ selectedMeal' = meals[k]
    /\ ended' = NoEnd
    /\ UNCHANGED <<searchVars, filterVars, loading, error, meals, runs, favourites,
                   probeVars>>

\* toggleFavourite that adds without looking for the id
toggledAlwaysAdd(f, meal) == Append(f, [idMeal |-> meal.idMeal, strMeal |-> meal.strMeal])

\* the updater of toggleFavourite, lines 216-220
toggled(f, meal) ==
    IF \E k \in 1..Len(f) : f[k].idMeal = meal.idMeal
    THEN keepWhere(f, [k \in 1..Len(f) |-> f[k].idMeal # meal.idMeal])
    ELSE Append(f, [idMeal |-> meal.idMeal, strMeal |-> meal.strMeal])

\* the star button of result card k, lines 433-442
toggleFavourite(k) ==
    /\ k \in 1..Len(meals)
    /\ favourites' = toggled(favourites, meals[k])
    /\ ended' = NoEnd
    /\ UNCHANGED <<searchVars, filterVars, loading, error, meals, selectedMeal, runs,
                   probeVars>>

\* the list-ingredients request resolves with the names d, lines 109-115
catalogLoaded(d) ==
    /\ catalogPending
    /\ catalogPending' = FALSE
    /\ allIngredients' = catalogNames(d)
    /\ ended' = NoEnd
    /\ UNCHANGED <<query, debouncedQuery, selectedIngredients, filterVars, loading,
                   error, meals, selectedMeal, runs, favourites, probeVars>>

\* the list-ingredients request rejects, line 116
catalogFailed ==
    /\ catalogPending
    /\ catalogPending' = FALSE
    /\ allIngredients' = <<>>
    /\ ended' = NoEnd
    /\ UNCHANGED <<query, debouncedQuery, selectedIngredients, filterVars, loading,
                   error, meals, selectedMeal, runs, favourites, probeVars>>

\* the state after the first render and its effects: the list-ingredients
\* request is out, and run() has returned at line 134
InitApp ==
    /\ allIngredients = <<>>
    /\ catalogPending = TRUE
    /\ query = <<>>
    /\ debouncedQuery = <<>>
    /\ selectedIngredients = <<>>
    /\ cuisines = <<>>
    /\ cookTime = InitialCookTime
    /\ mealTimes = <<>>
    /\ diet = <<>>
    /\ loading = FALSE
    /\ error = NoError
    /\ meals = <<>>
    /\ selectedMeal = Null
    /\ favourites = <<>>
    /\ runs = <<>>
    /\ ended = NoEnd
    /\ probe = Null
    /\ minutes = estimateCookTime(Null)
    /\ populated = 0
    /\ qualifying = 0

\* ------------------------------------------------- the upstream service
\* TheMealDB is outside the repository.  What it answers is an input, drawn
\* from the small sets below: a request either rejects or resolves with one
\* of the listed answers.  A lookup answers with the record of the id asked
\* for, or with no record.

egg == <<"e","g","g">>
rice == <<"r","i","c","e">>
salt == <<"s","a","l","t">>

RECURSIVE repeat(_, _)
repeat(chunk, n) == IF n = 0 THEN <<>> ELSE chunk \o repeat(chunk, n - 1)

HeavySteps == 11    \* the steps of recipe 2, which put its estimate above the sentinel

\* the detail record the service holds for an id
recipe(id) ==
    CASE id = 1 ->
           [idMeal |-> 1,
            strMeal |-> <<"P","a","n","c","a","k","e","s">>,
            strCategory |-> <<"D","e","s","s","e","r","t">>,
            strArea |-> American,
            strTags |-> <<"B","r","e","a","k","f","a","s","t",",","Q","u","i","c","k">>,
            strInstructions |-> <<"W","h","i","s","k"," ","t","h","e"," ","e","g","g","s",
                                  ".","\n","F","r","y"," ","s","l","o","w","l","y","\r",
                                  "\n","S","e","r","v","e",".">>,
            slots |-> << <<"E","g","g">>, <<" ","F","l","o","u","r"," ">>, <<>>, <<" ">>,
                         <<"M","i","l","k">> >>]
      [] id = 2 ->
           [idMeal |-> 2,
            strMeal |-> <<"B","a","c","o","n"," ","F","r","i","e","d"," ","R","i","c","e">>,
            strCategory |-> <<"S","i","d","e">>,
            strArea |-> Chinese,
            strTags |-> <<>>,
            strInstructions |-> repeat(<<"S","t","i","r"," ","i","t",".">>, HeavySteps),
            slots |-> <<<<"B","a","c","o","n">>, <<"E","g","g">>>>
                      \o [i \in 1..(MaxSlots - 2) |-> <<"R","i","c","e">>]]
      [] id = 3 ->
           [idMeal |-> 3,
            strMeal |-> <<"T","u","n","a"," ","J","u","i","c","e">>,
            strCategory |-> <<"S","e","a","f","o","o","d">>,
            strArea |-> <<>>,
            strTags |-> <<>>,
            strInstructions |-> <<>>,
            slots |-> << <<"T","u","n","a">>, <<"E","g","g">> >>]
      [] OTHER ->
           [idMeal |-> id,
            strMeal |-> <<"R","i","c","e">>,
            strCategory |-> <<>>,
            strArea |-> <<>>,
            strTags |-> <<>>,
            strInstructions |-> <<"M","i","x",".">>,
            slots |-> << <<"R","i","c","e">>, <<"S","a","l","t">> >>]

\* the ids whose lookup may answer with no record (meals: null)
missingIds == {3, 13}

\* what a lookup-by-id request may resolve with: d?.meals?.[0]
lookupAnswers(id) == {recipe(id)} \cup (IF id \in missingIds THEN {Null} ELSE {})

\* what a filter-by-ingredient request may resolve with, as ids, when the
\* catalogue of the service is small
smallAnswers(name) ==
    CASE name = egg -> {<<1, 3, 4>>}
      [] name = bacon -> {<<3, 4, 3, 6>>, <<>>}
      [] OTHER -> {<<>>}

\* the same, when egg is in recipes of every kind
richAnswers(name) ==
    CASE name = egg -> {<<1, 2>>}
      [] OTHER -> {<<>>}

\* the same, when egg is in three recipes the default filters let through
plainAnswers(name) ==
    CASE name = egg -> {<<1, 4, 5>>}
      [] OTHER -> {<<>>}

BigList == 22       \* more ids than MaxResults under one ingredient

\* the same, when one ingredient is in more recipes than the cap lets through
bigAnswers(name) ==
    CASE name = rice -> {[i \in 1..BigList |-> 10 + i]}
      [] name = salt -> {[i \in 1..BigList |-> 11 + i]}
      [] OTHER -> {<<>>}

\* the same, when the service knows no recipe
noAnswers(name) == {<<>>}

\* --------------------------------------------------- the search pipeline
\* The user types one of two ingredient names and presses Enter, removes
\* chips and clicks result cards, while the requests of the runs in flight
\* resolve or reject in any order.

MaxRuns == 2        \* run() calls in flight at once

\* the run whose next lookup answer is due, and the id that lookup asked for
awaitingLookup == {k \in 1..Len(runs) :
                      runs[k].stage = "lookup" /\ Len(runs[k].details) < Len(runs[k].ids)}
nextLookupId(k) == runs[k].ids[Len(runs[k].details) + 1]

Init == InitApp

Next ==
    \/ \E q \in {egg, bacon} : typeQuery(q)
    \/ pressEnter /\ Len(runs') <= MaxRuns
    \/ \E n \in {egg, bacon} : removeIngredient(n) /\ Len(runs') <= MaxRuns
    \/ \E k \in 1..Len(meals) : selectCard(k)
    \/ \E k \in 1..Len(runs) : \E i \in 1..Len(runs[k].lists) :
          \E d \in smallAnswers(runs[k].ings[i]) : FilterResolved(k, i, d)
    \/ \E k \in 1..Len(runs) : \E i \in 1..Len(runs[k].lists) : FilterRejected(k, i)
    \/ \E k \in awaitingLookup : \E rec \in lookupAnswers(nextLookupId(k)) :
          LookupResolved(k, rec)
    \/ \E k \in awaitingLookup : LookupRejected(k)

Spec == Init /\ [][Next]_vars

\* the ids of a list of records
idsOf(list) == {list[j].idMeal : j \in 1..Len(list)}

\* C2, as stated: when a run ends because one of its filter-by-ingredient
\* requests failed, it has issued no lookup-by-id request, the result list
\* is empty and the error message is set.
C2_FilterFailureEmptiesResults ==
    (ended.outcome = "failed" /\ ended.stage = "filter")
        => (ended.ids = <<>> /\ meals = <<>> /\ error = ErrorMessage)

\* C2, amended: when a run ends because one of its filter-by-ingredient
\* requests failed, it has issued no lookup-by-id request, the step that ends
\* it sets the error message and writes neither the result list nor the
\* selection, and the result list is empty if no other run was in flight
\* during the run.
C2_FilterFailureFailsRun ==
    [][(ended'.outcome = "failed" /\ ended'.stage = "filter")
          => /\ ended'.ids = <<>>
             /\ error' = ErrorMessage
             /\ meals' = meals
             /\ selectedMeal' = selectedMeal
             /\ (ended'.alone => meals' = <<>>)]_vars

\* a run has just failed on one filter request after another one of its
\* filter requests had answered
C2_Witness ==
    /\ ended.outcome = "failed"
    /\ ended.stage = "filter"
    /\ ended.alone
    /\ \E i \in 1..Len(ended.lists) : ended.lists[i].done

\* C3, as stated: a run that has reached the detail-fetch step ends
\* successfully whatever happens to a lookup-by-id request, and sets no error.
C3_LookupFailureNeverFatal ==
    (ended.stage = "lookup" /\ ended.outcome # "none")
        => (ended.outcome = "done" /\ (ended.alone => error = NoError))

\* C3, amended: a lookup-by-id request that answers with no record is not
\* fatal: when the run completes, the records of all its other lookups that
\* pass the filters are in the result list, no missing record is, and the run
\* has set no error; a lookup-by-id request that rejects fails the run, which
\* sets the error message.
C3_MissingRecordDropped ==
    /\ ended.outcome = "done"
          => /\ \A j \in 1..Len(ended.details) :
                    (ended.details[j] # Null /\ retained(ended.details[j], ended.f))
                        => ended.details[j] \in Range(meals)
             /\ Null \notin Range(meals)
             /\ idsOf(meals) \subseteq Range(ended.ids)
             /\ (ended.alone => error = NoError)
    /\ (ended.outcome = "failed" /\ ended.stage = "lookup") => error = ErrorMessage

\* a run has completed although one of its lookups, not the last, came back
\* without a record
C3_Witness ==
    /\ ended.outcome = "done"
    /\ \E j \in 1..Len(ended.details) :
          ended.details[j] = Null /\ j < Len(ended.details)
    /\ meals # <<>>
    /\ error = NoError

\* C4: a run started with no ingredient chosen empties the result list and
\* the selection, clears the error, issues no request and leaves the loading
\* flag as it was.
C4_EmptyRunShortCircuits ==
    [][ended'.outcome = "skipped"
          => /\ meals' = <<>>
             /\ selectedMeal' = Null
             /\ error' = NoError
             /\ loading' = loading
             /\ runs' = runs]_vars

\* the last chip has just been removed, after results had been shown
C4_Witness ==
    /\ ended.outcome = "skipped"
    /\ selectedIngredients = <<>>
    /\ ~loading
    /\ runs = <<>>

\* C10: a run that completes selects the first record of the result list it
\* wrote, or nothing if that list is empty; and in every state the selection
\* is nothing or a record of the result list.
C10_SelectionInResults ==
    /\ ended.outcome = "done" => selectedMeal = (IF meals = <<>> THEN Null ELSE meals[1])
    /\ selectedMeal = Null \/ selectedMeal \in Range(meals)

\* the user has clicked a card other than the first of a result list
C10_Witness ==
    /\ Len(meals) >= 2
    /\ selectedMeal = meals[2]

\* ------------------------------------------------------ the result cap
\* As above, with two ingredients that are each in more recipes than the
\* cap lets through.

MaxCapRuns == 1     \* run() calls in flight at once

NextCap ==
    \/ \E q \in {rice, salt} : typeQuery(q)
    \/ pressEnter /\ Len(runs') <= MaxCapRuns
    \/ \E n \in {rice, salt} : removeIngredient(n) /\ Len(runs') <= MaxCapRuns
    \/ \E k \in 1..Len(runs) : \E i \in 1..Len(runs[k].lists) :
          \E d \in bigAnswers(runs[k].ings[i]) : FilterResolved(k, i, d)
    \/ \E k \in 1..Len(runs) : \E i \in 1..Len(runs[k].lists) : FilterRejected(k, i)
    \/ \E k \in awaitingLookup : \E rec \in lookupAnswers(nextLookupId(k)) :
          LookupResolved(k, rec)
    \/ \E k \in awaitingLookup : LookupRejected(k)

SpecCap == Init /\ [][NextCap]_vars

\* C1: when a run completes, the ids of the records in the result list are
\* among the ids that every one of its filter-by-ingredient requests
\* answered with, the result list has at most 20 members, and no run has
\* more than 20 lookup-by-id requests.
C1_ResultsWithinIntersection ==
    /\ ended.outcome = "done"
          => /\ \A i \in 1..Len(ended.lists) : idsOf(meals) \subseteq Range(ended.lists[i].ids)
             /\ Len(meals) <= MaxResults
             /\ Len(ended.ids) <= MaxResults
    /\ \A k \in 1..Len(runs) : Len(runs[k].ids) <= MaxResults

\* a run over two ingredients whose candidate sets share more than 20 ids
\* has completed with a full result list
C1_Witness ==
    /\ ended.outcome = "done"
    /\ Len(ended.ings) = 2
    /\ Cardinality(Range(ended.lists[1].ids) \cap Range(ended.lists[2].ids)) > MaxResults
    /\ Len(meals) = MaxResults

\* ------------------------------------------------------------ the filters
\* One ingredient, whose recipes differ in area, category, tags, ingredients
\* and length, while the user changes each of the four filters.  Every
\* request is answered; a lookup may answer with no record.

MaxFilterRuns == 1  \* run() calls in flight at once

NextFilters ==
    \/ typeQuery(egg)
    \/ pressEnter /\ Len(runs') <= MaxFilterRuns
    \/ removeIngredient(egg) /\ Len(runs') <= MaxFilterRuns
    \/ toggleCuisine(cuisineOptions[3]) /\ Len(runs') <= MaxFilterRuns
    \/ \E v \in {InitialCookTime, SentinelMinutes} : moveSlider(v) /\ Len(runs') <= MaxFilterRuns
    \/ toggleMealTime(Breakfast) /\ Len(runs') <= MaxFilterRuns
    \/ toggleDiet("Veg") /\ Len(runs') <= MaxFilterRuns
    \/ \E k \in 1..Len(runs) : \E i \in 1..Len(runs[k].lists) :
          \E d \in richAnswers(runs[k].ings[i]) : FilterResolved(k, i, d)
    \/ \E k \in awaitingLookup : \E rec \in lookupAnswers(nextLookupId(k)) :
          LookupResolved(k, rec)

SpecFilters == Init /\ [][NextFilters]_vars

\* the run closed over no cuisine, no diet, no meal time and a cooking time
\* at or above the sentinel
unrestricted(f) ==
    /\ f.cuisines = <<>>
    /\ f.diet = <<>>
    /\ f.mealTimes = <<>>
    /\ f.cookTime >= SentinelMinutes

\* C8: when a run that closed over empty cuisine, diet and meal-time filters
\* and a cooking time at or above the sentinel completes, the result list is
\* exactly the records its lookups fetched, in lookup order.
C8_EmptyFiltersRetainAll ==
    (ended.outcome = "done" /\ unrestricted(ended.f))
        => /\ \A j \in 1..Len(ended.details) :
                  ended.details[j] # Null => ended.details[j] \in Range(meals)
           /\ Len(meals) = Cardinality({j \in 1..Len(ended.details) : ended.details[j] # Null})

\* such a run has completed and kept a record that is not vegetarian and
\* whose estimate is above the cooking time chosen, next to one that is
C8_Witness ==
    /\ ended.outcome = "done"
    /\ unrestricted(ended.f)
    /\ \E a, b \in Range(meals) :
          /\ estimateCookTime(a) > ended.f.cookTime
          /\ ~isVeg(a)
          /\ isVeg(b)
          /\ mealTimeOk(b, <<Breakfast>>)

\* ------------------------------------------------------- the search bar
\* The catalog arrives (or fails to), the user types, the debounce timer
\* fires, and ingredients are chosen with the Enter key or from the
\* suggestion list and removed again.  The service knows no recipe, so every
\* run ends with an empty result.

MaxChosen == 2      \* chips at once
MaxSearchRuns == 1  \* run() calls in flight at once

\* the names the list-ingredients request may resolve with, as the service
\* sends them: unsorted, one of them empty
catalogAnswer ==
    << <<"a","l">>, <<"B","a">>, <<"a","k">>,
       <<"a","b">>, <<"A","c">>, <<>>,
       <<"a","d">>, <<"a","e">>, <<"o","b">>,
       <<"a","f">>, <<"a","g">>, <<"B","o">>,
       <<"a","h">>, <<"a","i">>, <<"a","j">> >>

\* what the user types into the search input
typedQueries == { <<"A">>, <<" ","o"," ">> }

\* the suggestions the user clicks when they are shown
clickedNames == { <<"a","b">>, <<"B","o">> }

NextSearch ==
    \/ catalogLoaded(catalogAnswer)
    \/ catalogFailed
    \/ \E q \in typedQueries : typeQuery(q)
    \/ debounce
    \/ pressEnter /\ Len(selectedIngredients') <= MaxChosen /\ Len(runs') <= MaxSearchRuns
    \/ \E n \in clickedNames :
          clickSuggestion(n) /\ Len(selectedIngredients') <= MaxChosen
                             /\ Len(runs') <= MaxSearchRuns
    \/ \E k \in 1..Len(selectedIngredients) :
          removeIngredient(selectedIngredients[k]) /\ Len(runs') <= MaxSearchRuns
    \/ \E k \in 1..Len(runs) : \E i \in 1..Len(runs[k].lists) :
          \E d \in noAnswers(runs[k].ings[i]) : FilterResolved(k, i, d)

SpecSearch == Init /\ [][NextSearch]_vars

\* C5: the chosen ingredients never hold a name twice, and every step leaves
\* them as they were, appends one name that was not among them, or takes one
\* name out and keeps the others in their order.
C5_ChosenDistinctInOrder ==
    /\ [](\A i, j \in 1..Len(selectedIngredients) :
              selectedIngredients[i] = selectedIngredients[j] => i = j)
    /\ [][\/ selectedIngredients' = selectedIngredients
          \/ \E n \in Range(selectedIngredients') :
                /\ n \notin Range(selectedIngredients)
                /\ selectedIngredients' = Append(selectedIngredients, n)
          \/ \E cut \in 1..Len(selectedIngredients) :
                selectedIngredients' =
                    SubSeq(selectedIngredients, 1, cut - 1)
                        \o SubSeq(selectedIngredients, cut + 1, Len(selectedIngredients))]_vars

\* two names are chosen, one of them from the suggestions, and the user has
\* typed the first of them again
C5_Witness ==
    /\ Len(selectedIngredients) = 2
    /\ trim(query) = selectedIngredients[1]
    /\ selectedIngredients[2] \in Range(allIngredients)

\* the places of the catalog names that contain the debounced query, letter
\* case ignored, and are not chosen
matching ==
    {i \in 1..Len(allIngredients) :
        /\ \E off \in 0..(Len(allIngredients[i]) - Len(debouncedQuery)) :
              \A k \in 1..Len(debouncedQuery) :
                  toLowerChar(allIngredients[i][off + k]) = toLowerChar(debouncedQuery[k])
        /\ \A c \in 1..Len(selectedIngredients) : selectedIngredients[c] # allIngredients[i]}

\* C7: the suggestion list is empty when the debounced query is empty, and
\* otherwise holds, in catalog order, the first 10 (or all, if fewer) of the
\* catalog names that contain the query, letter case ignored, and are not
\* chosen.
C7_SuggestionsAreFirstMatches ==
    IF debouncedQuery = <<>>
    THEN suggestions = <<>>
    ELSE /\ Len(suggestions) = Min(MaxSuggestions, Cardinality(matching))
         /\ \A k \in 1..Len(suggestions) :
               \E i \in matching :
                  /\ Cardinality({j \in matching : j < i}) = k - 1
                  /\ suggestions[k] = allIngredients[i]

\* more than 10 names match although one matching name has been chosen, and
\* 10 are shown
C7_Witness ==
    /\ debouncedQuery # <<>>
    /\ Cardinality(matching) > MaxSuggestions
    /\ Len(suggestions) = MaxSuggestions
    /\ \E c \in 1..Len(selectedIngredients) :
          /\ selectedIngredients[c] \in Range(allIngredients)
          /\ includes(toLowerCase(selectedIngredients[c]), toLowerCase(debouncedQuery))

\* ------------------------------------------------------- the favourites
\* The user searches for egg and stars and unstars the result cards.

MaxFavRuns == 1     \* run() calls in flight at once

NextFav ==
    \/ typeQuery(egg)
    \/ pressEnter /\ Len(runs') <= MaxFavRuns
    \/ removeIngredient(egg) /\ Len(runs') <= MaxFavRuns
    \/ \E k \in 1..Len(runs) : \E i \in 1..Len(runs[k].lists) :
          \E d \in plainAnswers(runs[k].ings[i]) : FilterResolved(k, i, d)
    \/ \E k \in awaitingLookup : LookupResolved(k, recipe(nextLookupId(k)))
    \/ \E k \in 1..Len(meals) : toggleFavourite(k)

SpecFav == Init /\ [][NextFav]_vars

favouriteIds(f) == {f[k].idMeal : k \in 1..Len(f)}

\* C6: no identifier is twice among the favourites; a step that changes them
\* adds the (id, name) pair of a result card whose id was not among them, or
\* removes the entry of a card whose id was; and toggling any result card
\* twice in a row gives back the same identifiers.
C6_ToggleTwiceRestores ==
    /\ [](/\ \A i, j \in 1..Len(favourites) :
                favourites[i].idMeal = favourites[j].idMeal => i = j
          /\ \A k \in 1..Len(meals) :
                favouriteIds(toggled(toggled(favourites, meals[k]), meals[k]))
                    = favouriteIds(favourites))
    /\ [][favourites' # favourites =>
            \E k \in 1..Len(meals) :
               IF meals[k].idMeal \in favouriteIds(favourites)
               THEN /\ favouriteIds(favourites') = favouriteIds(favourites) \ {meals[k].idMeal}
                    /\ Len(favourites') = Len(favourites) - 1
               ELSE favourites' = Append(favourites, [idMeal |-> meals[k].idMeal,
                                                      strMeal |-> meals[k].strMeal])]_vars

\* two cards are starred and the one starred first is still shown: toggling
\* it twice gives back the same identifiers in another order
C6_Witness ==
    /\ Len(favourites) = 2
    /\ \E k \in 1..Len(meals) :
          /\ meals[k].idMeal = favourites[1].idMeal
          /\ toggled(toggled(favourites, meals[k]), meals[k]) # favourites

\* ------------------------------------------------------- the estimate
\* A record is received and shown with its estimate while it is written out
\* slot by slot and step by step.

MaxQualifying == 40  \* qualifying instruction segments of the record

\* the slots the record may leave blank
holeSlots == {3, 4}

\* five qualifying segments among blank lines and a segment of 6 characters
fiveSteps ==
    <<"B","o","i","l"," ","i","t",".","\r","\n",
      "A","d","d"," ","t","h","e"," ","s","a","l","t","."," ","F","r","y"," ","i","t",".","\n",
      " "," ","S","t","i","r"," ","s","l","o","w","l","y"," "," ","\n",
      "S","e","r","v","e"," ","w","a","r","m",".",
      "R","e","s","t"," ","i","t"," ","w","e","l","l",".">>

\* a heading of 6 characters
heading == <<"S","t","e","p","s",":","\n">>

\* the service answers with a record that has a name and nothing else
receive ==
    /\ probe = Null
    /\ probe' = [recipe(9) EXCEPT !.strInstructions = <<>>, !.slots = <<>>]
    /\ minutes' = estimateCookTime(probe')
    /\ UNCHANGED <<appVars, populated, qualifying>>

\* the next slot of the record holds a name
fillSlot(name) ==
    /\ probe # Null
    /\ Len(probe.slots) < MaxSlots
    /\ probe' = [probe EXCEPT !.slots = Append(@, name)]
    /\ populated' = populated + 1
    /\ minutes' = estimateCookTime(probe')
    /\ UNCHANGED <<appVars, qualifying>>

\* the next slot of the record is null, empty or blank
skipSlot(blank) ==
    /\ probe # Null
    /\ Len(probe.slots) < MaxSlots
    /\ Len(probe.slots) + 1 \in holeSlots
    /\ probe' = [probe EXCEPT !.slots = Append(@, blank)]
    /\ minutes' = estimateCookTime(probe')
    /\ UNCHANGED <<appVars, populated, qualifying>>

\* the instructions of the record start with the heading
writeHeading ==
    /\ probe # Null
    /\ probe.strInstructions = <<>>
    /\ probe' = [probe EXCEPT !.strInstructions = heading]
    /\ minutes' = estimateCookTime(probe')
    /\ UNCHANGED <<appVars, populated, qualifying>>

\* the instructions of the record go on with five more steps
writeSteps ==
    /\ probe # Null
    /\ qualifying + 5 <= MaxQualifying
    /\ probe' = [probe EXCEPT !.strInstructions = @ \o fiveSteps]
    /\ qualifying' = qualifying + 5
    /\ minutes' = estimateCookTime(probe')
    /\ UNCHANGED <<appVars, populated>>

NextEstimate ==
    \/ receive
    \/ fillSlot(<<" ","F","l","o","u","r"," ">>)
    \/ \E blank \in {<<>>, <<" ">>} : skipSlot(blank)
    \/ writeHeading
    \/ writeSteps

SpecEstimate == Init /\ [][NextEstimate]_vars

\* C9: the estimate shown is min(120, 10 + 2 * populated slots + 2 *
\* qualifying segments), lies between 10 and 120, and does not go down when a
\* slot is populated or a qualifying segment is added.
C9_EstimateBoundedMonotone ==
    /\ [](/\ minutes = Min(120, 10 + 2 * populated + 2 * qualifying)
          /\ minutes >= 10
          /\ minutes <= 120)
    /\ [][(populated' >= populated /\ qualifying' >= qualifying) => minutes' >= minutes]_vars

\* all 20 slots are written, two of them blank, and the steps are enough for
\* the cap to cut the sum
C9_Witness ==
    /\ probe # Null
    /\ Len(probe.slots) = MaxSlots
    /\ populated = MaxSlots - 2
    /\ 10 + 2 * populated + 2 * qualifying > 120
    /\ minutes = 120

\* ------------------------------------------------------ overlapping runs
\* The user chooses egg, takes it away again and switches the Veg diet on and
\* off while the requests of earlier runs are still in flight.

MaxRaceRuns == 2    \* run() calls in flight at once

NextRace ==
    \/ typeQuery(egg)
    \/ pressEnter /\ Len(runs') <= MaxRaceRuns
    \/ removeIngredient(egg) /\ Len(runs') <= MaxRaceRuns
    \/ toggleDiet("Veg") /\ Len(runs') <= MaxRaceRuns
    \/ \E k \in 1..Len(runs) : \E i \in 1..Len(runs[k].lists) :
          \E d \in smallAnswers(runs[k].ings[i]) : FilterResolved(k, i, d)
    \/ \E k \in 1..Len(runs) : \E i \in 1..Len(runs[k].lists) : FilterRejected(k, i)
    \/ \E k \in awaitingLookup : \E rec \in lookupAnswers(nextLookupId(k)) :
          LookupResolved(k, rec)
    \/ \E k \in awaitingLookup : LookupRejected(k)

SpecRace == Init /\ [][NextRace]_vars

\* C11: a run that completes writes the result list and the selection from
\* the records it fetched and the filters it started with, and a run that
\* fails writes the error message, whatever has been chosen since and whatever
\* other runs have started or ended in the meantime.
C11_StaleRunOverwrites ==
    [][/\ ended'.outcome = "done" =>
             /\ \A j \in 1..Len(meals') :
                   \E i \in 1..Len(ended'.details) :
                      /\ ended'.details[i] = meals'[j]
                      /\ retained(meals'[j], ended'.f)
             /\ \A i \in 1..Len(ended'.details) :
                   (ended'.details[i] # Null /\ retained(ended'.details[i], ended'.f))
                       => ended'.details[i] \in Range(meals')
             /\ selectedMeal' = (IF meals' = <<>> THEN Null ELSE meals'[1])
       /\ ended'.outcome = "failed" => error' = ErrorMessage]_vars

\* a run started with egg chosen has just completed with results, after the
\* user took egg away and switched the Veg diet on: the results shown hold a
\* record that is not vegetarian and no ingredient is chosen
C11_Witness ==
    /\ ended.outcome = "done"
    /\ ended.ings # selectedIngredients
    /\ ended.f # filtersNow
    /\ selectedIngredients = <<>>
    /\ \E j \in 1..Len(meals) : ~dietOk(meals[j], diet)

\* ------------------------------------------------------ runs that end
\* The user chooses egg and bacon, in either order, and every request that is
\* in flight is answered in the end: fetch resolves or rejects.

liveNames == {egg, bacon}

\* a request of run k is answered: fetch rejects or resolves
Respond(k) ==
    \/ \E i \in 1..Len(runs[k].lists) : FilterRejected(k, i)
    \/ k \in awaitingLookup /\ LookupRejected(k)
    \/ \E i \in 1..Len(runs[k].lists) :
          \E d \in smallAnswers(runs[k].ings[i]) : FilterResolved(k, i, d)
    \/ k \in awaitingLookup /\ \E rec \in lookupAnswers(nextLookupId(k)) :
          LookupResolved(k, rec)

NextLive ==
    \/ \E q \in liveNames : typeQuery(q)
    \/ pressEnter
    \/ \E k \in 1..Len(runs) : Respond(k)

SpecLive ==
    /\ Init
    /\ [][NextLive]_vars
    /\ \A k \in 1..Cardinality(liveNames) : WF_vars(k \in 1..Len(runs) /\ Respond(k))

allListsDone(r) == \A j \in 1..Len(r.lists) : r.lists[j].done

\* C12: a run has ids to look up, or a record looked up, only when all its
\* filter-by-ingredient requests have resolved; the result list, the
\* selection and the error are written only in a step in which a run starts
\* or ends, and a run ends with results only when all its filter requests and
\* all its lookups have resolved; and when every request is answered, the
\* runs in flight all end.
C12_TwoBarriersThenEnd ==
    /\ [](\A k \in 1..Len(runs) :
             (runs[k].stage = "lookup" \/ runs[k].ids # <<>> \/ runs[k].details # <<>>)
                 => allListsDone(runs[k]))
    /\ [][/\ <<meals, selectedMeal, error>>' # <<meals, selectedMeal, error>>
               => (Len(runs') > Len(runs) \/ ended'.outcome # "none")
          /\ ended'.outcome = "done"
               => (allListsDone(ended') /\ Len(ended'.details) = Len(ended'.ids))]_vars
    /\ (runs # <<>>) ~> (runs = <<>>)

\* a run with two ingredients has all its lists and one of its two records,
\* and nothing is shown yet
C12_Witness ==
    \E k \in 1..Len(runs) :
       /\ Len(runs[k].lists) = 2
       /\ runs[k].stage = "lookup"
       /\ Len(runs[k].ids) = 2
       /\ Len(runs[k].details) = 1
       /\ meals = <<>>
       /\ loading

\* ------------------------------------------------------ the status area
\* lines 410-412: the error banner is rendered
bannerShown == ~loading /\ error # NoError

\* lines 413-415: the "No results matched your filters." notice is rendered
noticeShown ==
    ~loading /\ error = NoError /\ meals = <<>> /\ Len(selectedIngredients) > 0

\* C13, as stated: loading is true whenever a run is in flight (every run in
\* flight has ingredients), so that neither the notice nor the banner is
\* shown then, and false whenever none is.
C13_LoadingIffRunInFlight ==
    /\ runs # <<>> => (loading /\ ~noticeShown /\ ~bannerShown)
    /\ runs = <<>> => ~loading

\* C13, amended: loading is false whenever no run is in flight, and true
\* whenever the one run in flight has had no other run beside it; every step
\* that starts a run with ingredients raises the flag, every step in which a
\* run completes or fails lowers it, whether or not other runs are still in
\* flight, and no other step changes it.
C13_LoadingFollowsLastStartOrEnd ==
    /\ [](/\ runs = <<>> => ~loading
          /\ (Len(runs) = 1 /\ runs[1].alone) => loading)
    /\ [][IF Len(runs') > Len(runs) THEN loading'
          ELSE IF ended'.outcome \in {"done", "failed"} THEN ~loading'
          ELSE loading' = loading]_vars

\* an earlier run has just failed while the latest run is still waiting for
\* its answers: the error banner is shown although that run is unresolved
C13_Witness ==
    /\ ended.outcome = "failed"
    /\ Len(runs) = 1
    /\ runs[1].ings = selectedIngredients
    /\ runs[1].f = filtersNow
    /\ bannerShown

====
